---- MODULE Spec2Model ----
(***************************************************************************)
(* The HLS rewriting proxy (api/proxy handler and its helpers).            *)
(*                                                                         *)
(* A JavaScript string is modelled as a sequence of Unicode scalar values  *)
(* (integers); the response bodies the program sees come from              *)
(* response.text(), which never yields a lone surrogate.  Every string     *)
(* operation of the source (trim, split, startsWith, includes, the         *)
(* regular expressions, encodeURIComponent, decodeURIComponent, new URL)   *)
(* is computed on these sequences.                                         *)
(***************************************************************************)
EXTENDS Integers, Sequences, FiniteSets, TLC

(***************************************************************************)
(* Bounds of the model.                                                    *)
(***************************************************************************)
\* largest MAX_RECURSION the environment is given in the handler model
MaxRecursionBound == 2
\* longest tail (after the scheme) of the URLs of the round-trip model
MaxTail == 2
\* most lines of a media playlist body in the rewriter model
MaxMediaLines == 2
\* most lines of a master playlist body in the selection model
MaxMasterLines == 5

(***************************************************************************)
(* Characters and string primitives.                                       *)
(***************************************************************************)
\* the printable ASCII characters, code 32 first (the grave accent, which a
\* string literal cannot hold, by name)
Ascii ==
  << " ", "!", "\"", "#", "$", "%", "&", "'", "(", ")", "*", "+", ",", "-", ".", "/",
     "0", "1", "2", "3", "4", "5", "6", "7", "8", "9", ":", ";", "<", "=", ">", "?",
     "@", "A", "B", "C", "D", "E", "F", "G", "H", "I", "J", "K", "L", "M", "N", "O",
     "P", "Q", "R", "S", "T", "U", "V", "W", "X", "Y", "Z", "[", "\\", "]", "^", "_",
     "grave", "a", "b", "c", "d", "e", "f", "g", "h", "i", "j", "k", "l", "m", "n", "o",
     "p", "q", "r", "s", "t", "u", "v", "w", "x", "y", "z", "{", "|", "}", "~" >>

\* the code of each of them
Code == [c \in {Ascii[i] : i \in 1..Len(Ascii)} |-> 31 + (CHOOSE i \in 1..Len(Ascii) : Ascii[i] = c)]

Ord(c) == Code[c]

\* the string whose characters are listed in cs
Str(cs) == [i \in 1..Len(cs) |-> Ord(cs[i])]

\* the line feed of content.split('\n') and output.join('\n')
LF == 10

Min(a, b) == IF a < b THEN a ELSE b

\* F of the value of v, with v computed once (a const declaration of the source)
Let(v, F(_)) == CHOOSE r \in {F(x) : x \in {v}} : TRUE

StartsWith(s, p) == Len(s) >= Len(p) /\ SubSeq(s, 1, Len(p)) = p

EndsWith(s, p) == Len(s) >= Len(p) /\ SubSeq(s, Len(s) - Len(p) + 1, Len(s)) = p

\* s.substring(i) with i counted from 1
Drop(s, i) == SubSeq(s, i, Len(s))

\* the first index at or after i where p occurs in s; 0 when there is none
RECURSIVE IndexFrom(_, _, _)
IndexFrom(s, p, i) ==
  IF i + Len(p) - 1 > Len(s) THEN 0
  ELSE IF SubSeq(s, i, i + Len(p) - 1) = p THEN i
  ELSE IndexFrom(s, p, i + 1)

\* String.prototype.indexOf counted from 1; 0 when p does not occur
IndexOf(s, p) == IndexFrom(s, p, 1)

\* the last index at or before i where p occurs in s; 0 when there is none
RECURSIVE IndexBack(_, _, _)
IndexBack(s, p, i) ==
  IF i < 1 THEN 0
  ELSE IF SubSeq(s, i, i + Len(p) - 1) = p THEN i
  ELSE IndexBack(s, p, i - 1)

\* String.prototype.lastIndexOf counted from 1; 0 when p does not occur
LastIndexOf(s, p) == IndexBack(s, p, Len(s) - Len(p) + 1)

Includes(s, p) == Len(p) = 0 \/ IndexOf(s, p) > 0

\* the white space and line terminators String.prototype.trim removes
IsSpace(c) == c \in {9, 10, 11, 12, 13, 32, 160, 5760, 8232, 8233, 8239, 8287, 12288, 65279}
                 \/ c \in 8192..8202

RECURSIVE TrimStart(_)
TrimStart(s) == IF s # << >> /\ IsSpace(Head(s)) THEN TrimStart(Tail(s)) ELSE s

RECURSIVE TrimEnd(_)
TrimEnd(s) ==
  IF s # << >> /\ IsSpace(s[Len(s)]) THEN TrimEnd(SubSeq(s, 1, Len(s) - 1)) ELSE s

Trim(s) == TrimEnd(TrimStart(s))

\* s.split(sep) for a one-character separator: always at least one piece
RECURSIVE Split(_, _)
Split(s, sep) ==
  LET i == IndexOf(s, << sep >>)
  IN IF i = 0 THEN << s >>
     ELSE << SubSeq(s, 1, i - 1) >> \o Split(Drop(s, i + 1), sep)

\* pieces.join(sep)
RECURSIVE Join(_, _)
Join(pieces, sep) ==
  IF pieces = << >> THEN << >>
  ELSE IF Len(pieces) = 1 THEN pieces[1]
  ELSE pieces[1] \o << sep >> \o Join(Tail(pieces), sep)

IsDigit(c) == c \in 48..57

IsAlpha(c) == c \in 65..90 \/ c \in 97..122

\* String.prototype.toLowerCase on ASCII letters
Lower(s) == [i \in 1..Len(s) |-> IF s[i] \in 65..90 THEN s[i] + 32 ELSE s[i]]

\* parseInt(digits, 10) of a non-empty run of decimal digits
RECURSIVE ParseInt(_)
ParseInt(ds) ==
  IF ds = << >> THEN 0 ELSE 10 * ParseInt(SubSeq(ds, 1, Len(ds) - 1)) + (ds[Len(ds)] - 48)

(***************************************************************************)
(* encodeURIComponent and decodeURIComponent (ECMA-262 19.2.6).            *)
(***************************************************************************)
\* what decodeURIComponent's URIError is modelled as: no string holds -1
Fail == << -1 >>

HexChars == Str(<< "0", "1", "2", "3", "4", "5", "6", "7", "8", "9", "A", "B", "C", "D", "E", "F" >>)

HexVal(c) ==
  IF c \in 48..57 THEN c - 48
  ELSE IF c \in 65..70 THEN c - 55
  ELSE IF c \in 97..102 THEN c - 87
  ELSE -1

\* the escape %XX of one octet, upper-case hex
PctByte(b) == << Ord("%"), HexChars[(b \div 16) + 1], HexChars[(b % 16) + 1] >>

\* the UTF-8 octets of a scalar value
Utf8(c) ==
  IF c < 128 THEN << c >>
  ELSE IF c < 2048 THEN << 192 + (c \div 64), 128 + (c % 64) >>
  ELSE IF c < 65536 THEN << 224 + (c \div 4096), 128 + ((c \div 64) % 64), 128 + (c % 64) >>
  ELSE << 240 + (c \div 262144), 128 + ((c \div 4096) % 64),
          128 + ((c \div 64) % 64), 128 + (c % 64) >>

\* the characters encodeURIComponent leaves alone: A-Z a-z 0-9 - _ . ! ~ * ' ( )
IsUnreserved(c) ==
  IsAlpha(c) \/ IsDigit(c)
    \/ c \in {Ord("-"), Ord("_"), Ord("."), Ord("!"), Ord("~"), Ord("*"), Ord("'"), Ord("("), Ord(")")}

RECURSIVE PctBytes(_)
PctBytes(bs) == IF bs = << >> THEN << >> ELSE PctByte(Head(bs)) \o PctBytes(Tail(bs))

\* an encoder that lets the percent sign through
EncodeCharKeepPercent(c) ==
  IF IsUnreserved(c) \/ c = Ord("%") THEN << c >> ELSE PctBytes(Utf8(c))

EncodeChar(c) == IF IsUnreserved(c) THEN << c >> ELSE PctBytes(Utf8(c))

RECURSIVE encodeURIComponent(_)
encodeURIComponent(s) ==
  IF s = << >> THEN << >> ELSE EncodeChar(Head(s)) \o encodeURIComponent(Tail(s))

\* the octet of the escape at s[i..i+2], or -1 when there is no well-formed escape
EscapeAt(s, i) ==
  IF i + 2 <= Len(s) /\ s[i] = Ord("%") /\ HexVal(s[i + 1]) >= 0 /\ HexVal(s[i + 2]) >= 0
  THEN 16 * HexVal(s[i + 1]) + HexVal(s[i + 2])
  ELSE -1

\* how many octets the UTF-8 sequence led by octet b has; 0 when b leads none
Utf8Len(b) ==
  IF b < 128 THEN 1
  ELSE IF b \in 192..223 THEN 2
  ELSE IF b \in 224..239 THEN 3
  ELSE IF b \in 240..247 THEN 4
  ELSE 0

\* the scalar value of the n escaped octets at s[i..], or -1 when they are not
\* the shortest-form UTF-8 of a scalar value
Utf8Value(s, i, n) ==
  LET b(k) == EscapeAt(s, i + 3 * k)
      cont(k) == b(k) \in 128..191
      v == IF n = 2 THEN (b(0) - 192) * 64 + (b(1) - 128)
           ELSE IF n = 3 THEN (b(0) - 224) * 4096 + (b(1) - 128) * 64 + (b(2) - 128)
           ELSE (b(0) - 240) * 262144 + (b(1) - 128) * 4096 + (b(2) - 128) * 64 + (b(3) - 128)
      least == IF n = 2 THEN 128 ELSE IF n = 3 THEN 2048 ELSE 65536
  IN IF (\A k \in 1..(n - 1) : cont(k)) /\ v >= least /\ v <= 1114111 /\ v \notin 55296..57343
     THEN v ELSE -1

RECURSIVE DecodeFrom(_, _)
DecodeFrom(s, i) ==
  IF i > Len(s) THEN << >>
  ELSE IF s[i] # Ord("%")
  THEN LET rest == DecodeFrom(s, i + 1)
       IN IF rest = Fail THEN Fail ELSE << s[i] >> \o rest
  ELSE LET b == EscapeAt(s, i)
           n == IF b < 0 THEN 0 ELSE Utf8Len(b)
           v == IF n = 0 THEN -1 ELSE IF n = 1 THEN b ELSE Utf8Value(s, i, n)
       IN IF v < 0 THEN Fail
          ELSE LET rest == DecodeFrom(s, i + 3 * n)
               IN IF rest = Fail THEN Fail ELSE << v >> \o rest

decodeURIComponent(s) == DecodeFrom(s, 1)

(***************************************************************************)
(* new URL(...) of Node's WHATWG URL class, for http and https URLs.  The  *)
(* model covers a scheme, a host with an optional port, a path with its    *)
(* dot segments, a query and a fragment; user information, IDNA and IPv4   *)
(* or IPv6 hosts, backslashes and embedded tabs are outside it, and the    *)
(* inputs of every specification below stay inside it.                     *)
(***************************************************************************)
HttpPrefix == Str(<< "h", "t", "t", "p", ":", "/", "/" >>)

HttpsPrefix == Str(<< "h", "t", "t", "p", "s", ":", "/", "/" >>)

\* the test /^https?:\/\//i of getTargetUrlFromPath and resolveUrl
IsHttpUrl(s) ==
  \/ Len(s) >= 7 /\ Lower(SubSeq(s, 1, 7)) = HttpPrefix
  \/ Len(s) >= 8 /\ Lower(SubSeq(s, 1, 8)) = HttpsPrefix

\* the index of the first character of s at or after i that is in cs, or Len(s) + 1
RECURSIVE FindFrom(_, _, _)
FindFrom(s, i, cs) ==
  IF i > Len(s) \/ s[i] \in cs THEN Min(i, Len(s) + 1) ELSE FindFrom(s, i + 1, cs)

\* the length of a leading URL scheme of s with its colon, or 0 when s has none
SchemeLen(s) ==
  LET c == FindFrom(s, 1, {Ord(":")})
  IN IF /\ c <= Len(s) /\ c > 1 /\ IsAlpha(s[1])
        /\ \A k \in 2..(c - 1) :
             IsAlpha(s[k]) \/ IsDigit(s[k]) \/ s[k] \in {Ord("+"), Ord("-"), Ord(".")}
     THEN c ELSE 0

\* the percent-encode sets of the URL parser's path, query and fragment states
PathEncodeSet == {32, 34, 35, 60, 62, 63, 96, 123, 125}

QueryEncodeSet == {32, 34, 35, 39, 60, 62}

FragmentEncodeSet == {32, 34, 60, 62, 96}

RECURSIVE UrlEncode(_, _)
UrlEncode(s, set) ==
  IF s = << >> THEN << >>
  ELSE (IF Head(s) \in set \/ Head(s) < 32 \/ Head(s) > 126
        THEN PctBytes(Utf8(Head(s))) ELSE << Head(s) >>) \o UrlEncode(Tail(s), set)

IsSingleDot(seg) == Lower(seg) \in {Str(<< "." >>), Str(<< "%", "2", "e" >>)}

IsDoubleDot(seg) ==
  Lower(seg) \in {Str(<< ".", "." >>), Str(<< ".", "%", "2", "e" >>),
                  Str(<< "%", "2", "e", "." >>), Str(<< "%", "2", "e", "%", "2", "e" >>)}

\* the path state's handling of the segments segs[k..], acc the path so far
RECURSIVE NormSegs(_, _, _)
NormSegs(segs, k, acc) ==
  IF k > Len(segs) THEN acc
  ELSE LET seg == segs[k]
           last == (k = Len(segs))
           acc1 == IF IsDoubleDot(seg)
                   THEN (IF acc = << >> THEN acc ELSE SubSeq(acc, 1, Len(acc) - 1))
                          \o (IF last THEN << << >> >> ELSE << >>)
                   ELSE IF IsSingleDot(seg)
                   THEN acc \o (IF last THEN << << >> >> ELSE << >>)
                   ELSE acc \o << UrlEncode(seg, PathEncodeSet) >>
       IN NormSegs(segs, k + 1, acc1)

\* the pathname of a path string that starts with "/" (or is empty)
NormPath(p) ==
  IF p = << >> THEN Str(<< "/" >>)
  ELSE Str(<< "/" >>) \o Join(NormSegs(Split(Drop(p, 2), Ord("/")), 1, << >>), Ord("/"))

\* the characters a host may not hold (forbidden host code points, and the
\* percent sign, whose decoding is not modelled)
ForbiddenHost == {32, 35, 37, 47, 58, 60, 62, 63, 64, 91, 92, 93, 94, 124}

HostOk(h) == h # << >> /\ \A k \in 1..Len(h) : h[k] \notin ForbiddenHost /\ h[k] \in 33..126

\* host or host:port as the parser serialises it, or Fail
ParseAuthority(a, scheme) ==
  LET c == LastIndexOf(a, Str(<< ":" >>))
      host == Lower(IF c = 0 THEN a ELSE SubSeq(a, 1, c - 1))
      port == IF c = 0 THEN << >> ELSE Drop(a, c + 1)
      dflt == IF scheme = Str(<< "h", "t", "t", "p" >>) THEN 80 ELSE 443
  IN IF ~HostOk(host) \/ \E k \in 1..Len(port) : ~IsDigit(port[k]) THEN Fail
     ELSE IF Len(port) > 5 \/ ParseInt(port) > 65535 THEN Fail
     ELSE IF port = << >> \/ ParseInt(port) = dflt THEN host
     ELSE host \o Str(<< ":" >>) \o port

\* path?query#fragment split and serialised as in the href: [pathname, search, hash]
ParseTail(t) ==
  LET h == FindFrom(t, 1, {Ord("#")})
      q == FindFrom(SubSeq(t, 1, h - 1), 1, {Ord("?")})
  IN [pathname |-> NormPath(SubSeq(t, 1, q - 1)),
      search |-> IF q < h
                 THEN Str(<< "?" >>) \o UrlEncode(SubSeq(t, q + 1, h - 1), QueryEncodeSet)
                 ELSE << >>,
      hash |-> IF h <= Len(t)
               THEN Str(<< "#" >>) \o UrlEncode(Drop(t, h + 1), FragmentEncodeSet)
               ELSE << >>]

\* the index of the first character of s at or after i that is not a slash
RECURSIVE SkipSlashes(_, _)
SkipSlashes(s, i) ==
  IF i <= Len(s) /\ s[i] = Ord("/") THEN SkipSlashes(s, i + 1) ELSE i

NoUrl == [ok |-> FALSE, origin |-> << >>, pathname |-> << >>, search |-> << >>, hash |-> << >>]

HttpSchemes == {Str(<< "h", "t", "t", "p" >>), Str(<< "h", "t", "t", "p", "s" >>)}

UrlDelimiters == {Ord("/"), Ord("?"), Ord("#")}

\* new URL(u) of an http(s) URL u: [ok, origin, pathname, search, hash]; ok is
\* FALSE where the constructor throws TypeError
ParseUrl(u) ==
  Let(SchemeLen(u), LAMBDA n :
    IF n = 0 THEN NoUrl
    ELSE Let(Lower(SubSeq(u, 1, n - 1)), LAMBDA scheme :
      IF scheme \notin HttpSchemes THEN NoUrl
      \* the special-authority states skip every slash after the colon
      ELSE Let(SkipSlashes(u, n + 1), LAMBDA a :
           Let(FindFrom(u, a, UrlDelimiters), LAMBDA e :
           Let(ParseAuthority(SubSeq(u, a, e - 1), scheme), LAMBDA auth :
             IF auth = Fail THEN NoUrl
             ELSE Let(ParseTail(Drop(u, e)), LAMBDA t :
                    [ok |-> TRUE, origin |-> scheme \o Str(<< ":", "/", "/" >>) \o auth,
                     pathname |-> t.pathname, search |-> t.search, hash |-> t.hash]))))))

\* URL.prototype.toString
Href(p) == p.origin \o p.pathname \o p.search \o p.hash

\* a reference with a scheme of its own is an absolute URL: its scheme in lower
\* case and the rest as written (a scheme that is not special)
ResolveScheme(rel, n) == Lower(SubSeq(rel, 1, n)) \o Drop(rel, n + 1)

\* a reference //authority/path takes the scheme of the base
ResolveAuthority(rel, base) ==
  Let(ParseUrl(SubSeq(base.origin, 1, IndexOf(base.origin, Str(<< ":" >>))) \o rel), LAMBDA p :
    IF p.ok THEN Href(p) ELSE Fail)

\* a reference to a path, to a query or to a fragment of the base
ResolvePath(rel, base) ==
  Let(SubSeq(base.pathname, 1, LastIndexOf(base.pathname, Str(<< "/" >>))), LAMBDA dir :
  Let(ParseTail(IF rel[1] = Ord("/") THEN rel
                ELSE IF rel[1] \in {Ord("?"), Ord("#")} THEN base.pathname \o rel
                ELSE dir \o rel), LAMBDA t :
    base.origin \o t.pathname
      \o (IF rel[1] = Ord("#") THEN base.search ELSE t.search) \o t.hash))

\* new URL(rel, base).toString() for a reference rel that is not empty and does
\* not start with http:// or https://, against a parsed base; Fail where the
\* constructor throws
ResolveRef(rel, base) ==
  IF ~base.ok THEN Fail
  ELSE Let(SchemeLen(rel), LAMBDA n :
         IF n > 0 THEN ResolveScheme(rel, n)
         ELSE IF StartsWith(rel, Str(<< "/", "/" >>)) THEN ResolveAuthority(rel, base)
         ELSE ResolvePath(rel, base))

(***************************************************************************)
(* The URL helpers of the proxy.                                           *)
(***************************************************************************)
\* what the JavaScript null of getTargetUrlFromPath is modelled as
Null == << -2 >>

getTargetUrlFromPath(encodedPath) ==
  IF encodedPath = << >> THEN Null
  ELSE Let(decodeURIComponent(encodedPath), LAMBDA decodedUrl :
         IF decodedUrl = Fail THEN Null               \* catch (e): return null
         ELSE IF IsHttpUrl(decodedUrl) THEN decodedUrl
         ELSE IF IsHttpUrl(encodedPath) THEN encodedPath
         ELSE Null)

\* the catch branch of getBaseUrl
BaseUrlFallback(urlStr) ==
  LET lastSlashIndex == LastIndexOf(urlStr, Str(<< "/" >>)) - 1
      schemeIndex == IndexOf(urlStr, Str(<< ":", "/", "/" >>)) - 1
  IN IF lastSlashIndex > schemeIndex + 2
     THEN SubSeq(urlStr, 1, lastSlashIndex + 1)
     ELSE urlStr \o Str(<< "/" >>)

\* pathParts.pop(); pathParts.join('/')
PopJoin(pathParts) == Join(SubSeq(pathParts, 1, Len(pathParts) - 1), Ord("/"))

getBaseUrl(urlStr) ==
  IF urlStr = << >> THEN << >>
  ELSE Let(ParseUrl(urlStr), LAMBDA parsedUrl :
         IF ~parsedUrl.ok THEN BaseUrlFallback(urlStr)
         ELSE IF parsedUrl.pathname = Str(<< "/" >>) THEN parsedUrl.origin \o Str(<< "/" >>)
         ELSE parsedUrl.origin \o PopJoin(Split(parsedUrl.pathname, Ord("/"))) \o Str(<< "/" >>))

\* the catch branch of resolveUrl; base is new URL(baseUrl)
ResolveFallback(baseUrl, relativeUrl, base) ==
  LET baseEndsWithSlash == EndsWith(baseUrl, Str(<< "/" >>))
      relStartsWithSlash == StartsWith(relativeUrl, Str(<< "/" >>))
  IN IF relStartsWithSlash
     THEN (IF base.ok THEN base.origin \o relativeUrl ELSE relativeUrl)
     ELSE IF baseEndsWithSlash /\ relStartsWithSlash
     THEN baseUrl \o Drop(relativeUrl, 2)
     ELSE IF ~baseEndsWithSlash /\ ~relStartsWithSlash
     THEN SubSeq(baseUrl, 1, LastIndexOf(baseUrl, Str(<< "/" >>))) \o relativeUrl
     ELSE baseUrl \o relativeUrl

\* a resolver that joins the base and the reference whatever they are
resolveUrlNaive(baseUrl, relativeUrl) == baseUrl \o relativeUrl

\* a resolver that hands the reference back as it is
resolveUrlVerbatim(baseUrl, relativeUrl) == relativeUrl

resolveUrl(baseUrl, relativeUrl) ==
  IF baseUrl = << >> \/ relativeUrl = << >> THEN relativeUrl
  ELSE IF IsHttpUrl(relativeUrl) THEN relativeUrl
  ELSE Let(ParseUrl(baseUrl), LAMBDA base :
       Let(ResolveRef(relativeUrl, base), LAMBDA resolved :
         IF resolved # Fail THEN resolved
         ELSE ResolveFallback(baseUrl, relativeUrl, base)))

\* the proxy's mount prefix, /api/proxy/
ProxyPrefix == Str(<< "/", "a", "p", "i", "/", "p", "r", "o", "x", "y", "/" >>)

rewriteUrlToProxy(targetUrl) ==
  IF targetUrl = << >> THEN << >>
  ELSE ProxyPrefix \o encodeURIComponent(targetUrl)

(***************************************************************************)
(* Playlist classification and the media-playlist rewriter.                *)
(***************************************************************************)
HlsTypes == {Str(<< "a", "p", "p", "l", "i", "c", "a", "t", "i", "o", "n", "/", "v", "n", "d", ".", "a", "p", "p", "l", "e", ".", "m", "p", "e", "g", "u", "r", "l" >>), Str(<< "a", "p", "p", "l", "i", "c", "a", "t", "i", "o", "n", "/", "x", "-", "m", "p", "e", "g", "u", "r", "l" >>), Str(<< "a", "u", "d", "i", "o", "/", "m", "p", "e", "g", "u", "r", "l" >>)}

ExtM3u == Str(<< "#", "E", "X", "T", "M", "3", "U" >>)

StreamInf == Str(<< "#", "E", "X", "T", "-", "X", "-", "S", "T", "R", "E", "A", "M", "-", "I", "N", "F" >>)

ExtMedia == Str(<< "#", "E", "X", "T", "-", "X", "-", "M", "E", "D", "I", "A", ":" >>)

Hash == Str(<< "#" >>)

\* the content-type test alone, without the look at the body
isM3u8ContentTypeOnly(content, contentType) ==
  contentType # << >> /\ \E t \in HlsTypes : Includes(contentType, t)

isM3u8Content(content, contentType) ==
  \/ contentType # << >> /\ \E t \in HlsTypes : Includes(contentType, t)
  \/ content # << >> /\ StartsWith(Trim(content), ExtM3u)

UriAttr == Str(<< "U", "R", "I", "=", "\"" >>)

Quote == Ord("\"")

\* where /URI="([^"]+)"/ first matches in line: [at, close], the index of the
\* match and of its closing quote, at = 0 when there is no match
UriMatch(line) ==
  LET ok(i) == /\ i + 5 <= Len(line)
               /\ SubSeq(line, i, i + 4) = UriAttr
               /\ line[i + 5] # Quote
               /\ FindFrom(line, i + 5, {Quote}) <= Len(line)
      hits == {i \in 1..Len(line) : ok(i)}
      at == CHOOSE i \in hits : \A k \in hits : i <= k
  IN IF hits = {} THEN [at |-> 0, close |-> 0]
     ELSE [at |-> at, close |-> FindFrom(line, at + 5, {Quote})]

\* line.replace(/URI="([^"]+)"/, ...) of processKeyLine
processKeyLine(line, baseUrl) ==
  Let(UriMatch(line), LAMBDA m :
    IF m.at = 0 THEN line
    ELSE Let(resolveUrl(baseUrl, SubSeq(line, m.at + 5, m.close - 1)), LAMBDA absoluteUri :
           SubSeq(line, 1, m.at - 1) \o UriAttr \o rewriteUrlToProxy(absoluteUri)
             \o << Quote >> \o Drop(line, m.close + 1)))

\* processMapLine is the same replacement
processMapLine(line, baseUrl) == processKeyLine(line, baseUrl)

ExtXKey == Str(<< "#", "E", "X", "T", "-", "X", "-", "K", "E", "Y" >>)

ExtXMap == Str(<< "#", "E", "X", "T", "-", "X", "-", "M", "A", "P" >>)

ExtInf == Str(<< "#", "E", "X", "T", "I", "N", "F" >>)

\* what one pass of processMediaPlaylist's loop pushes for the trimmed line
MediaLine(line, isLast, baseUrl) ==
  IF line = << >> /\ isLast THEN << line >>
  ELSE IF line = << >> THEN << >>
  ELSE IF StartsWith(line, ExtXKey) THEN << processKeyLine(line, baseUrl) >>
  ELSE IF StartsWith(line, ExtXMap) THEN << processMapLine(line, baseUrl) >>
  ELSE IF StartsWith(line, ExtInf) THEN << line >>
  ELSE IF ~StartsWith(line, Hash) THEN << rewriteUrlToProxy(resolveUrl(baseUrl, line)) >>
  ELSE << line >>

\* processMediaPlaylist's loop from lines[i] on
RECURSIVE MediaLoop(_, _, _)
MediaLoop(lines, i, baseUrl) ==
  IF i > Len(lines) THEN << >>
  ELSE MediaLine(Trim(lines[i]), i = Len(lines), baseUrl) \o MediaLoop(lines, i + 1, baseUrl)

processMediaPlaylist(url, content) ==
  Join(MediaLoop(Split(content, LF), 1, getBaseUrl(url)), LF)

(***************************************************************************)
(* Variant selection of processMasterPlaylist.                             *)
(***************************************************************************)
BandwidthAttr == Str(<< "B", "A", "N", "D", "W", "I", "D", "T", "H", "=" >>)

\* the index of the first character of s at or after i that is no digit
RECURSIVE SkipDigits(_, _)
SkipDigits(s, i) == IF i <= Len(s) /\ IsDigit(s[i]) THEN SkipDigits(s, i + 1) ELSE i

\* lines[i].match(/BANDWIDTH=(\d+)/): the number of the first match, 0 without one
currentBandwidth(line) ==
  LET n == Len(BandwidthAttr)
      hits == {i \in 1..Len(line) :
                 /\ i + n <= Len(line)
                 /\ SubSeq(line, i, i + n - 1) = BandwidthAttr
                 /\ IsDigit(line[i + n])}
      at == CHOOSE i \in hits : \A k \in hits : i <= k
  IN IF hits = {} THEN 0 ELSE ParseInt(SubSeq(line, at + n, SkipDigits(line, at + n) - 1))

\* the first j > i whose trimmed line is not empty and no comment, 0 without one
RECURSIVE NextUriLine(_, _)
NextUriLine(lines, j) ==
  IF j > Len(lines) THEN 0
  ELSE IF Trim(lines[j]) # << >> /\ ~StartsWith(Trim(lines[j]), Hash) THEN j
  ELSE NextUriLine(lines, j + 1)

\* the loop "Find highest bandwidth variant" from lines[i] on
RECURSIVE VariantLoop(_, _, _, _, _)
VariantLoop(lines, i, baseUrl, highestBandwidth, bestVariantUrl) ==
  IF i > Len(lines)
  THEN [highestBandwidth |-> highestBandwidth, bestVariantUrl |-> bestVariantUrl]
  ELSE IF StartsWith(lines[i], StreamInf)
  THEN Let(currentBandwidth(lines[i]), LAMBDA bw :
       Let(NextUriLine(lines, i + 1), LAMBDA j :
       Let(IF j = 0 THEN << >> ELSE Trim(lines[j]), LAMBDA variantUriLine :
       Let(variantUriLine # << >> /\ bw >= highestBandwidth, LAMBDA take :
         VariantLoop(lines, (IF j = 0 THEN i ELSE j) + 1, baseUrl,
                     IF take THEN bw ELSE highestBandwidth,
                     IF take THEN resolveUrl(baseUrl, variantUriLine) ELSE bestVariantUrl)))))
  ELSE VariantLoop(lines, i + 1, baseUrl, highestBandwidth, bestVariantUrl)

\* the fallback's test of a trimmed line
IsPlaylistUri(line) ==
  /\ line # << >>
  /\ ~StartsWith(line, Hash)
  /\ (EndsWith(line, Str(<< ".", "m", "3", "u", "8" >>)) \/ Includes(line, Str(<< ".", "m", "3", "u", "8", "?" >>)))

\* the loop "Fallback: find first m3u8 URI" from lines[i] on
RECURSIVE FallbackLoop(_, _, _)
FallbackLoop(lines, i, baseUrl) ==
  IF i > Len(lines) THEN << >>
  ELSE IF IsPlaylistUri(Trim(lines[i])) THEN resolveUrl(baseUrl, Trim(lines[i]))
  ELSE FallbackLoop(lines, i + 1, baseUrl)

\* bestVariantUrl as processMasterPlaylist has it before its fetch; empty when
\* the body names no sub-playlist
selectVariant(url, content) ==
  Let(getBaseUrl(url), LAMBDA baseUrl :
  Let(Split(content, LF), LAMBDA lines :
  Let(VariantLoop(lines, 1, baseUrl, -1, << >>).bestVariantUrl, LAMBDA best :
    IF best # << >> THEN best ELSE FallbackLoop(lines, 1, baseUrl))))

(***************************************************************************)
(* The request handler.  One request is followed from its arrival to its   *)
(* response.  The code between two awaits is one action: the handler up to *)
(* its first fetch, and the continuation that a fetch's result resumes,    *)
(* through processM3u8Content and processMasterPlaylist, up to the next    *)
(* fetch or to the response.                                               *)
(***************************************************************************)
VARIABLES
  pc,             \* "idle", "fetching" (awaiting fetchContentWithType) or "done"
  maxRecursion,   \* MAX_RECURSION of the environment
  reqHeaders,     \* req.headers: [acceptLanguage, referer], empty when absent
  targetUrl,      \* the handler's targetUrl
  frame,          \* the awaiting caller: [site, url, bestVariantUrl, depth]
  fetch,          \* the outbound request in flight: [url, acceptLanguage, referer]
  inFlight,       \* how many outbound requests are in flight
  fetchCount,     \* how many outbound requests were issued (counted up to FetchCap)
  response,       \* what the handler sent: [status, kind, error, body]
  respCount,      \* how many responses the handler sent
  master,         \* the last call of processMasterPlaylist: [depth, threw, fetched]
  classified,     \* the last fetched body and where it went: [content, contentType, site, route]
  based,          \* the last body whose references were resolved: [url, from, steps]
  probe           \* the input and results of the models of the pure functions

handlerVars ==
  << pc, maxRecursion, reqHeaders, targetUrl, frame, fetch, inFlight, fetchCount,
     response, respCount, master, classified, based >>

vars == << handlerVars, probe >>

\* the count of outbound requests stops here: no run of the handler gets near it
FetchCap == MaxRecursionBound + 3

NoFetch == [url |-> << >>, acceptLanguage |-> << >>, referer |-> << >>]

NoFrame == [site |-> "none", url |-> << >>, bestVariantUrl |-> << >>, depth |-> 0]

NoResponse == [status |-> 0, kind |-> "none", error |-> "none", body |-> << >>]

NoMaster == [depth |-> -1, threw |-> FALSE, fetched |-> FALSE]

NoClass == [content |-> << >>, contentType |-> << >>, site |-> "none", route |-> "none"]

NoBase == [url |-> << >>, from |-> << >>, steps |-> 0]

NoProbe == [phase |-> "none"]

\* the {} that processMasterPlaylist gives fetchContentWithType as requestHeaders
EmptyHeaders == [acceptLanguage |-> << >>, referer |-> << >>]

DefaultAcceptLanguage == Str(<< "z", "h", "-", "C", "N", ",", "z", "h", ";", "q", "=", "0", ".", "9", ",", "e", "n", ";", "q", "=", "0", ".", "8" >>)

\* the headers object of fetchContentWithType; ok is FALSE when new URL(targetUrl)
\* throws, which is before the request is made
fetchHeaders(url, requestHeaders) ==
  Let(IF requestHeaders.referer # << >> THEN NoUrl ELSE ParseUrl(url), LAMBDA parsed :
    [ok |-> requestHeaders.referer # << >> \/ parsed.ok,
     url |-> url,
     acceptLanguage |-> IF requestHeaders.acceptLanguage # << >>
                        THEN requestHeaders.acceptLanguage ELSE DefaultAcceptLanguage,
     referer |-> IF requestHeaders.referer # << >>
                 THEN requestHeaders.referer ELSE parsed.origin])

\* the limit tested one level late
recursionExceededLate(recursionDepth, maxRec) == recursionDepth > maxRec + 1

\* the limit tested with >= for >
recursionExceededEarly(recursionDepth, maxRec) == recursionDepth >= maxRec

\* the test that opens processMasterPlaylist
recursionExceeded(recursionDepth, maxRec) == recursionDepth > maxRec

\* the depth handed on without the increment
variantDepthSame(recursionDepth) == recursionDepth

\* the depth processMasterPlaylist gives processM3u8Content for the variant's body
variantDepth(recursionDepth) == recursionDepth + 1

\* the master's own URL given in place of the variant's
variantSourceMaster(url, bestVariantUrl) == url

\* the URL processMasterPlaylist gives processMediaPlaylist and processM3u8Content
\* with the variant's body
variantSource(url, bestVariantUrl) == bestVariantUrl

\* whether processM3u8Content takes content for a master playlist
isMaster(content) == Includes(content, StreamInf) \/ Includes(content, ExtMedia)

\* processMasterPlaylist(url, content, recursionDepth, maxRecursion) up to its
\* await or its return: [kind, url, body, depth]
\*   "throw": the recursion limit, or new URL of the variant's URL
\*   "media": no variant found, body is processMediaPlaylist(url, content)
\*   "fetch": the variant url is requested
processMasterPlaylist(url, content, recursionDepth, maxRec) ==
  IF recursionExceeded(recursionDepth, maxRec)
  THEN [kind |-> "throw", error |-> "recursion", url |-> url, body |-> << >>]
  ELSE Let(selectVariant(url, content), LAMBDA bestVariantUrl :
         IF bestVariantUrl = << >>
         THEN [kind |-> "media", error |-> "none", url |-> url,
               body |-> processMediaPlaylist(url, content)]
         ELSE IF ~fetchHeaders(bestVariantUrl, EmptyHeaders).ok
         THEN [kind |-> "throw", error |-> "url", url |-> bestVariantUrl, body |-> << >>]
         ELSE [kind |-> "fetch", error |-> "none", url |-> bestVariantUrl, body |-> << >>])

\* processM3u8Content(targetUrl, content, recursionDepth, maxRecursion), the same
\* record, with kind "media" also for a body taken for a media playlist
processM3u8Content(url, content, recursionDepth, maxRec) ==
  IF isMaster(content)
  THEN processMasterPlaylist(url, content, recursionDepth, maxRec)
  ELSE [kind |-> "media", error |-> "none", url |-> url,
        body |-> processMediaPlaylist(url, content)]

Count(n) == Min(n, FetchCap)

\* the handler sends r and is done; outstanding requests remain in flight
Respond(r, outstanding) ==
  /\ pc' = "done"
  /\ response' = r
  /\ respCount' = respCount + 1
  /\ inFlight' = outstanding
  /\ fetch' = NoFetch
  /\ frame' = NoFrame
  /\ UNCHANGED fetchCount

\* fetchContentWithType(url, requestHeaders, ...) makes its request, and caller
\* awaits it
Await(caller, url, requestHeaders, outstanding) ==
  /\ pc' = "fetching"
  /\ frame' = caller
  /\ \E h \in {fetchHeaders(url, requestHeaders)} :
       fetch' = [url |-> h.url, acceptLanguage |-> h.acceptLanguage, referer |-> h.referer]
  /\ inFlight' = outstanding + 1
  /\ fetchCount' = Count(fetchCount + 1)
  /\ UNCHANGED << response, respCount >>

Status(code, kind) == [status |-> code, kind |-> kind, error |-> "none", body |-> << >>]

\* the catch answering with another status
Error502(e) == [status |-> 502, kind |-> "error", error |-> e, body |-> << >>]

\* res.status(500).json({ error: ... }) of the handler's catch
Error500(e) == [status |-> 500, kind |-> "error", error |-> e, body |-> << >>]

Playlist200(body) == [status |-> 200, kind |-> "playlist", error |-> "none", body |-> body]

Passthrough200(content) ==
  [status |-> 200, kind |-> "passthrough", error |-> "none", body |-> content]

\* what follows processM3u8Content(url, content, depth, ...): the response, or the
\* wait for the variant that processMasterPlaylist requested.  from is the URL
\* content was fetched from.
Continue(url, content, depth, from, outstanding) ==
  \E r \in {processM3u8Content(url, content, depth, maxRecursion)} :
  \E limit \in {r.kind = "throw" /\ r.error = "recursion"} :
     /\ master' = IF isMaster(content)
                  THEN [depth |-> depth, threw |-> limit, fetched |-> (r.kind = "fetch")]
                  ELSE master
     /\ based' = IF limit THEN based
                 ELSE [url |-> url, from |-> from, steps |-> fetchCount]
     /\ CASE r.kind = "throw" -> Respond(Error500(r.error), outstanding)
          [] r.kind = "media" -> Respond(Playlist200(r.body), outstanding)
          [] r.kind = "fetch" ->
               Await([site |-> "master", url |-> url, bestVariantUrl |-> r.url,
                      depth |-> depth],
                     r.url, EmptyHeaders, outstanding)

(***************************************************************************)
(* What the handler model is given: the request, and what upstream sends.  *)
(***************************************************************************)
\* the playlist the requests ask for
Target == Str(<< "h", "t", "t", "p", ":", "/", "/", "h", "/", "a", "/", "m", ".", "m", "3", "u", "8" >>)

\* req.query.path joined: the target encoded, the target as it is, an encoded
\* URL without a host, and paths that name no target
InboundPaths ==
  {encodeURIComponent(Target), Target, encodeURIComponent(HttpPrefix), Str(<< "a", "%", "2", "F", "m" >>), Str(<< "%" >>), << >>}

Methods == {"GET", "OPTIONS"}

InboundHeaders ==
  {[acceptLanguage |-> al, referer |-> ref] : al \in {<< >>, Str(<< "e", "n" >>)}, ref \in {<< >>, Str(<< "h", "t", "t", "p", ":", "/", "/", "p", "/" >>)}}

ContentTypes == {<< >>, Str(<< "t", "e", "x", "t", "/", "h", "t", "m", "l" >>), Str(<< "a", "p", "p", "l", "i", "c", "a", "t", "i", "o", "n", "/", "x", "-", "m", "p", "e", "g", "u", "r", "l" >>)}

MediaBody == Join(<< ExtM3u, Str(<< "#", "E", "X", "T", "I", "N", "F", ":", "1", "," >>), Str(<< "s", ".", "t", "s" >>), << >> >>, LF)

\* a master whose variant lies one directory down
MasterDeeper == Join(<< ExtM3u, Str(<< "#", "E", "X", "T", "-", "X", "-", "S", "T", "R", "E", "A", "M", "-", "I", "N", "F", ":", "B", "A", "N", "D", "W", "I", "D", "T", "H", "=", "5" >>), Str(<< "b", "/", "m", ".", "m", "3", "u", "8" >>), << >> >>, LF)

\* a master whose variant, fetched from Target, is Target again
MasterSelf == Join(<< ExtM3u, Str(<< "#", "E", "X", "T", "-", "X", "-", "S", "T", "R", "E", "A", "M", "-", "I", "N", "F", ":", "B", "A", "N", "D", "W", "I", "D", "T", "H", "=", "5" >>), Str(<< "m", ".", "m", "3", "u", "8" >>), << >> >>, LF)

\* a master's lines without the #EXTM3U header
BareStreamInf == Join(<< Str(<< "#", "E", "X", "T", "-", "X", "-", "S", "T", "R", "E", "A", "M", "-", "I", "N", "F", ":", "B", "A", "N", "D", "W", "I", "D", "T", "H", "=", "5" >>), Str(<< "m", ".", "m", "3", "u", "8" >>) >>, LF)

\* a master that names no sub-playlist
MediaTagOnly == Join(<< ExtM3u, Str(<< "#", "E", "X", "T", "-", "X", "-", "M", "E", "D", "I", "A", ":", "T", "Y", "P", "E", "=", "A", "U", "D", "I", "O" >>), << >> >>, LF)

Html == Str(<< "<", "h", "t", "m", "l", ">", "s", ".", "t", "s", "<", "/", "h", "t", "m", "l", ">" >>)

Bodies == {MediaBody, MasterDeeper, MasterSelf, BareStreamInf, MediaTagOnly, Html}

(***************************************************************************)
(* The handler's actions.                                                  *)
(***************************************************************************)
HandlerInit ==
  /\ pc = "idle"
  /\ reqHeaders = EmptyHeaders
  /\ targetUrl = << >>
  /\ frame = NoFrame
  /\ fetch = NoFetch
  /\ inFlight = 0
  /\ fetchCount = 0
  /\ response = NoResponse
  /\ respCount = 0
  /\ master = NoMaster
  /\ classified = NoClass
  /\ based = NoBase

Init ==
  /\ HandlerInit
  /\ maxRecursion \in 0..MaxRecursionBound
  /\ probe = NoProbe

\* handler(req, res) up to its await of fetchContentWithType(targetUrl, ...)
Request ==
  /\ pc = "idle"
  /\ \E method \in Methods, path \in InboundPaths, headers \in InboundHeaders :
     \E url \in {getTargetUrlFromPath(path)} :
          /\ reqHeaders' = headers
          /\ IF method = "OPTIONS"
             THEN targetUrl' = << >> /\ Respond(Status(204, "preflight"), 0)
             ELSE IF url = Null
             THEN targetUrl' = << >> /\ Respond(Status(400, "invalid"), 0)
             ELSE /\ targetUrl' = url
                  /\ IF fetchHeaders(url, headers).ok
                     THEN Await([site |-> "handler", url |-> url, bestVariantUrl |-> << >>,
                                 depth |-> 0],
                                url, headers, 0)
                     ELSE Respond(Error500("url"), 0)
  /\ UNCHANGED << maxRecursion, master, classified, based, probe >>

\* the awaited request succeeds with a body and a content-type: the handler, or
\* processMasterPlaylist, goes on from its await
FetchOk ==
  /\ pc = "fetching"
  /\ ParseUrl(fetch.url).ok
  /\ \E contentType \in ContentTypes, content \in Bodies :
     \E m3u8 \in {isM3u8Content(content, contentType)} :
     \E source \in {IF frame.site = "handler" THEN targetUrl
                    ELSE variantSource(frame.url, frame.bestVariantUrl)} :
       /\ classified' =
            [content |-> content, contentType |-> contentType, site |-> frame.site,
             route |-> IF m3u8 THEN (IF isMaster(content) THEN "master" ELSE "media")
                       ELSE IF frame.site = "handler" THEN "passthrough"
                       ELSE "mediaAnyway"]
       /\ IF m3u8
          THEN Continue(source, content,
                        IF frame.site = "handler" THEN 0 ELSE variantDepth(frame.depth),
                        fetch.url, inFlight - 1)
          ELSE IF frame.site = "handler"
          THEN /\ Respond(Passthrough200(content), inFlight - 1)
               /\ UNCHANGED << master, based >>
          ELSE /\ Respond(Playlist200(processMediaPlaylist(source, content)), inFlight - 1)
               /\ based' = [url |-> source, from |-> fetch.url, steps |-> fetchCount]
               /\ UNCHANGED master
  /\ UNCHANGED << maxRecursion, reqHeaders, targetUrl, probe >>

\* the awaited request fails (a status that is not ok, or no answer): the error
\* reaches the handler's catch
FetchFail ==
  /\ pc = "fetching"
  /\ Respond(Error500("fetch"), inFlight - 1)
  /\ UNCHANGED << maxRecursion, reqHeaders, targetUrl, master, classified, based, probe >>

FetchReturn == FetchFail \/ FetchOk

Next == Request \/ FetchOk \/ FetchFail

Spec == Init /\ [][Next]_vars

\* every request that is made is answered or fails (node-fetch settles its
\* promise), and the handler runs when a request arrives
SpecLive == Spec /\ WF_vars(Request) /\ WF_vars(FetchReturn)

(***************************************************************************)
(* The pure functions, each under a specification of its own: probe holds  *)
(* the inputs and the results, the handler is left idle.                   *)
(***************************************************************************)
\* the sequences over S of k0 to n elements
SeqsBetween(S, k0, n) == UNION {[1..k -> S] : k \in k0..n}

Idle == HandlerInit /\ maxRecursion = 0

\* ---- SpecUrl: rewriteUrlToProxy, then getTargetUrlFromPath of the segment
UrlPrefixes == {HttpPrefix, HttpsPrefix, Str(<< "H", "T", "T", "P", ":", "/", "/" >>)}

UrlChars == {Ord("a"), Ord("/"), Ord("%"), Ord("4"), Ord(" "), Ord("?"), 233}

AbsoluteUrls == {p \o t : p \in UrlPrefixes, t \in SeqsBetween(UrlChars, 0, MaxTail)}

InitUrl ==
  /\ Idle
  /\ probe \in {[phase |-> "url", u |-> u, path |-> << >>, back |-> << >>] : u \in AbsoluteUrls}

ToProxyPath ==
  /\ probe.phase = "url"
  /\ probe' = [probe EXCEPT !.phase = "path", !.path = rewriteUrlToProxy(probe.u)]
  /\ UNCHANGED handlerVars

\* the segment after the mount prefix is what the handler gives getTargetUrlFromPath
DecodePath ==
  /\ probe.phase = "path"
  /\ StartsWith(probe.path, ProxyPrefix)
  /\ probe' = [probe EXCEPT !.phase = "decoded",
                 !.back = getTargetUrlFromPath(Drop(probe.path, Len(ProxyPrefix) + 1))]
  /\ UNCHANGED handlerVars

NextUrl == ToProxyPath \/ DecodePath

SpecUrl == InitUrl /\ [][NextUrl]_vars

\* ---- SpecMedia: processMediaPlaylist, and once more on its own output
MediaSources == {Target, Str(<< "h", "t", "t", "p", "s", ":", "/", "/", "H", ":", "4", "4", "3", "/", "v", "/", "i", ".", "m", "3", "u", "8", "?", "t", "=", "1" >>)}

MediaLines ==
  { << >>, ExtM3u, Str(<< "#", "E", "X", "T", "I", "N", "F", ":", "1", "," >>), Str(<< "s", ".", "t", "s" >>), Str(<< " ", "/", "r", "/", "s", ".", "t", "s", " " >>), Str(<< "h", "t", "t", "p", ":", "/", "/", "c", "/", "s", ".", "t", "s" >>),
    Str(<< ".", ".", "/", "s", ".", "t", "s", "?", "x", "=", "1" >>), Str(<< "s", "k", "d", ":", "/", "/", "k" >>), Str(<< "/", "/", "[" >>),
    Str(<< "#", "E", "X", "T", "-", "X", "-", "K", "E", "Y", ":", "M", "E", "T", "H", "O", "D", "=", "A", "E", "S", "-", "1", "2", "8", ",", "U", "R", "I", "=", "\"", "k", ".", "k", "e", "y", "\"" >>), Str(<< "#", "E", "X", "T", "-", "X", "-", "K", "E", "Y", ":", "M", "E", "T", "H", "O", "D", "=", "N", "O", "N", "E" >>),
    Str(<< "#", "E", "X", "T", "-", "X", "-", "M", "A", "P", ":", "U", "R", "I", "=", "\"", "i", ".", "m", "p", "4", "\"", ",", "U", "R", "I", "=", "\"", "j", ".", "m", "p", "4", "\"" >>) }

MediaBodies == {Join(ls, LF) : ls \in SeqsBetween(MediaLines, 1, MaxMediaLines)}

InitMedia ==
  /\ Idle
  /\ probe \in {[phase |-> "body", url |-> u, content |-> c, first |-> << >>, second |-> << >>] :
                  u \in MediaSources, c \in MediaBodies}

RewriteOnce ==
  /\ probe.phase = "body"
  /\ probe' = [probe EXCEPT !.phase = "once",
                 !.first = processMediaPlaylist(probe.url, probe.content)]
  /\ UNCHANGED handlerVars

RewriteTwice ==
  /\ probe.phase = "once"
  /\ probe' = [probe EXCEPT !.phase = "twice",
                 !.second = processMediaPlaylist(probe.url, probe.first)]
  /\ UNCHANGED handlerVars

NextMedia == RewriteOnce \/ RewriteTwice

SpecMedia == InitMedia /\ [][NextMedia]_vars

\* ---- SpecSelect: the choice of the variant in processMasterPlaylist
Inf5 == StreamInf \o Str(<< ":", "B", "A", "N", "D", "W", "I", "D", "T", "H", "=", "5" >>)
Inf8 == StreamInf \o Str(<< ":", "B", "A", "N", "D", "W", "I", "D", "T", "H", "=", "8" >>)

MasterLines == {Inf5, Inf8, Str(<< "a", ".", "m", "3", "u", "8" >>), Str(<< "/", "b", ".", "m", "3", "u", "8" >>), Str(<< "#", " ", "c" >>)}

MasterBodies == {Join(ls, LF) : ls \in SeqsBetween(MasterLines, 1, MaxMasterLines)}

InitSelect ==
  /\ Idle
  /\ probe \in {[phase |-> "master", url |-> Target, content |-> c, best |-> << >>] :
                  c \in MasterBodies}

SelectVariant ==
  /\ probe.phase = "master"
  /\ probe' = [probe EXCEPT !.phase = "selected",
                 !.best = selectVariant(probe.url, probe.content)]
  /\ UNCHANGED handlerVars

NextSelect == SelectVariant

SpecSelect == InitSelect /\ [][NextSelect]_vars

(***************************************************************************)
(* The claims about the handler, under Spec and SpecLive.                  *)
(***************************************************************************)

\* C1 as stated: while a request is handled at most maxRecursion + 1 outbound
\* requests are issued, and never more than one is in flight.
C1_AtMostMaxPlusOne == fetchCount <= maxRecursion + 1 /\ inFlight <= 1

\* C1, amended: at most maxRecursion + 2 outbound requests are issued (the
\* target, and one variant for each depth 0..maxRecursion), and never more than
\* one is in flight.
C1_AtMostMaxPlusTwo == fetchCount <= maxRecursion + 2 /\ inFlight <= 1

\* the bound is met: a chain of masters that used every depth
C1_BoundMet == maxRecursion >= 1 /\ fetchCount = maxRecursion + 2 /\ inFlight = 1

\* C2: processMasterPlaylist entered at a depth above maxRecursion ends in the
\* recursion-limit error and requests nothing in that step; entered at a depth
\* up to maxRecursion it does not raise that error.
C2_LimitExactlyAboveMax ==
  master.depth >= 0 =>
    /\ master.depth > maxRecursion =>
         /\ master.threw /\ ~master.fetched
         /\ pc = "done" /\ inFlight = 0 /\ fetch = NoFetch
         /\ response.status = 500 /\ response.error = "recursion"
    /\ master.depth <= maxRecursion => ~master.threw /\ response.error # "recursion"

\* the resolver was entered one level above the limit
C2_EnteredAboveMax == master.depth = maxRecursion + 1 /\ master.threw

\* C3: once the target is requested, and given that every outbound request
\* returns, the handler sends exactly one response: a rewritten playlist, the
\* body passed through, or an error; also when the masters name themselves.
C3_OneResponse ==
  /\ [](respCount <= 1)
  /\ [](pc = "done" => respCount = 1)
  /\ (pc = "fetching") ~>
       (/\ pc = "done" /\ respCount = 1 /\ inFlight = 0
        /\ response.kind \in {"playlist", "passthrough", "error"})

\* a master that names itself, fetched at every depth, ended by the limit
C3_CycleEnded ==
  /\ pc = "done" /\ respCount = 1
  /\ targetUrl = Target /\ based.from = Target /\ classified.content = MasterSelf
  /\ response.error = "recursion"

\* C5: the references of a body are resolved against the base of the URL the
\* body was fetched from, at every depth and also for a variant's body that is
\* no playlist; after a master was resolved the target's URL is not the one
\* used for a variant fetched from elsewhere.
C5_BaseOfFetchedUrl ==
  based.steps >= 1 =>
    /\ getBaseUrl(based.url) = getBaseUrl(based.from)
    /\ based.steps >= 2 /\ based.from # targetUrl => based.url # targetUrl
    /\ response.kind = "playlist" =>
         response.body = processMediaPlaylist(based.from, classified.content)

\* a variant's body from another directory than the target's was rewritten
C5_VariantRewritten ==
  /\ based.steps >= 2 /\ response.kind = "playlist"
  /\ getBaseUrl(based.from) # getBaseUrl(targetUrl)
  /\ classified.route = "mediaAnyway"

\* C6: a failed outbound request, at any depth, ends the request: nothing more
\* is requested, and the response is the 500 error with no playlist text.
C6_FailureAborts ==
  /\ [](response.error = "fetch" =>
          /\ pc = "done" /\ inFlight = 0 /\ fetch = NoFetch /\ respCount = 1
          /\ response.status = 500 /\ response.kind = "error" /\ response.body = << >>)
  /\ [][response.error = "fetch" => fetchCount' = fetchCount /\ response' = response]_vars
  /\ [][pc = "fetching" /\ response'.error = "fetch" =>
          fetchCount' = fetchCount /\ inFlight' = 0]_vars

\* a variant's request failed, below the top of the chain
C6_FailedBelowTop == response.error = "fetch" /\ master.depth >= 1 /\ fetchCount >= 3

\* whether the content-type or the trimmed body marks a playlist
C7Recognised(content, contentType) ==
  \/ \E t \in HlsTypes : Includes(contentType, t)
  \/ StartsWith(Trim(content), ExtM3u)

\* C7 as stated: a body that holds #EXT-X-STREAM-INF goes to the master
\* resolver whatever its content-type, and HTML is passed through.
C7_StreamInfAlwaysMaster ==
  classified.site # "none" =>
    /\ Includes(classified.content, StreamInf) => classified.route = "master"
    /\ classified.content = Html =>
         classified.route = "passthrough" /\ response.body = classified.content

\* C7, amended: a body that holds #EXT-X-STREAM-INF goes to the master
\* resolver exactly when it is first recognised as a playlist, by an HLS
\* content-type or by #EXTM3U at the start of its trimmed text, and then
\* whatever the content-type is; a body that is not recognised, HTML or not,
\* is passed through as it is when it is the target's, and is rewritten as a
\* media playlist when it is a variant's.
C7_MasterWhenRecognised ==
  classified.site # "none" =>
    LET rec == C7Recognised(classified.content, classified.contentType)
    IN /\ Includes(classified.content, StreamInf) /\ rec => classified.route = "master"
       /\ ~rec /\ classified.site = "handler" =>
            /\ classified.route = "passthrough"
            /\ response = Passthrough200(classified.content)
       /\ ~rec /\ classified.site = "master" =>
            /\ classified.route = "mediaAnyway"
            /\ response.kind = "playlist"

\* a master without a content-type went to the master resolver
C7_MasterWithoutType ==
  /\ classified.route = "master" /\ classified.contentType = << >>
  /\ Includes(classified.content, StreamInf) /\ master.depth >= 0

(***************************************************************************)
(* The claims about the pure functions.                                    *)
(***************************************************************************)

\* the variants as C4 describes them: one for each #EXT-X-STREAM-INF line that
\* has a URI line after it, [bandwidth, uri, at]
C4Variants(lines) ==
  {[bandwidth |-> currentBandwidth(lines[i]),
    uri |-> Trim(lines[NextUriLine(lines, i + 1)]),
    at |-> i] :
     i \in {k \in 1..Len(lines) :
              StartsWith(lines[k], StreamInf) /\ NextUriLine(lines, k + 1) # 0}}

\* C4: of the variants, one for each #EXT-X-STREAM-INF line with the first URI
\* line after it, the one chosen has the highest bandwidth, the later one of
\* equals, and its URI is resolved against the base of the master's URL.
C4_HighestOfAllStreamInf ==
  probe.phase = "selected" =>
    LET vs == C4Variants(Split(probe.content, LF))
    IN vs # {} =>
         \E v \in vs :
           /\ \A w \in vs : w.bandwidth < v.bandwidth \/ (w.bandwidth = v.bandwidth /\ w.at <= v.at)
           /\ probe.best = resolveUrl(getBaseUrl(probe.url), v.uri)

\* the segment a proxy path holds after the mount prefix, decoded once
C9Embedded(line) == decodeURIComponent(Drop(line, Len(ProxyPrefix) + 1))

\* whether a line of a rewritten playlist is a segment line
C9Segment(line) == line # << >> /\ ~StartsWith(line, Hash)

\* C8: the segment rewriteUrlToProxy puts after the mount prefix is one path
\* segment, and getTargetUrlFromPath gives back from it the URL it was made of.
C8_RoundTrip ==
  probe.phase = "decoded" =>
    /\ probe.back = probe.u
    /\ StartsWith(probe.path, ProxyPrefix)
    /\ \A i \in (Len(ProxyPrefix) + 1)..Len(probe.path) : probe.path[i] # Ord("/")

\* a URL with a percent sign and a character outside ASCII went round
C8_EscapesWentRound ==
  /\ probe.phase = "decoded"
  /\ \E i, j \in 1..Len(probe.u) : probe.u[i] = Ord("%") /\ probe.u[j] > 127

\* C9 as stated: a segment line of the second output holds, after one decode,
\* the URL that the same line of the first output holds.
C9_SameTargetTwice ==
  probe.phase = "twice" =>
    LET out1 == Split(probe.first, LF)
        out2 == Split(probe.second, LF)
    IN /\ Len(out2) = Len(out1)
       /\ \A i \in 1..Len(out1) :
            C9Segment(out1[i]) => C9Embedded(out2[i]) = C9Embedded(out1[i])

\* C9, amended: the second rewrite takes a proxy path for a path on the
\* source's host and proxies it again; a segment line of the second output
\* holds, after one decode, the origin of the source URL followed by the whole
\* line of the first output, still encoded.
C9_ProxiedAgain ==
  probe.phase = "twice" =>
    LET out1 == Split(probe.first, LF)
        out2 == Split(probe.second, LF)
    IN /\ Len(out2) = Len(out1)
       /\ \A i \in 1..Len(out1) :
            C9Segment(out1[i]) =>
              /\ StartsWith(out2[i], ProxyPrefix)
              /\ C9Embedded(out2[i]) = ParseUrl(probe.url).origin \o out1[i]

\* a playlist with a relative and an absolute segment was rewritten twice
C9_SegmentsTwice ==
  /\ probe.phase = "twice"
  /\ probe.content = Join(<< Str(<< "s", ".", "t", "s" >>), Str(<< "h", "t", "t", "p", ":", "/", "/", "c", "/", "s", ".", "t", "s" >>) >>, LF)

\* the trimmed lines the rewriter keeps: the ones that are not empty, and the last
RECURSIVE C10Kept(_, _)
C10Kept(lines, i) ==
  IF i > Len(lines) THEN << >>
  ELSE IF Trim(lines[i]) # << >> \/ i = Len(lines)
  THEN << Trim(lines[i]) >> \o C10Kept(lines, i + 1)
  ELSE C10Kept(lines, i + 1)

\* a proxy path whose segment decodes to a URL with a scheme
C10Proxied(p) ==
  /\ StartsWith(p, ProxyPrefix)
  /\ Len(p) > Len(ProxyPrefix)
  /\ C9Embedded(p) # Fail
  /\ SchemeLen(C9Embedded(p)) > 0

\* a key or map line with only the value of its first URI="..." replaced
C10UriReplaced(in, out) ==
  LET m == UriMatch(in)
      tail == Len(in) - m.close
  IN IF m.at = 0 THEN out = in
     ELSE /\ Len(out) > m.at + 5 + tail
          /\ SubSeq(out, 1, m.at + 4) = SubSeq(in, 1, m.at + 4)
          /\ SubSeq(out, Len(out) - tail, Len(out)) = SubSeq(in, m.close, Len(in))
          /\ C10Proxied(SubSeq(out, m.at + 5, Len(out) - tail - 1))
          /\ SubSeq(out, m.at + 5, Len(out) - tail - 1) # SubSeq(in, m.at + 5, m.close - 1)

\* C10: in the rewriter's output a line that is not empty and has no # at its
\* start is a proxy path whose segment decodes to an absolute URL (a URL with
\* a scheme); a # line is the trimmed input line, but for #EXT-X-KEY and
\* #EXT-X-MAP lines, where the value of the first URI="..." alone is replaced
\* by such a path; no segment reference is left as it was.
C10_EveryReferenceProxied ==
  probe.phase \in {"once", "twice"} =>
    LET in == C10Kept(Split(probe.content, LF), 1)
        out == Split(probe.first, LF)
    IN /\ Len(out) = Len(in)
       /\ \A i \in 1..Len(in) :
            IF in[i] = << >> THEN out[i] = << >>
            ELSE IF StartsWith(in[i], ExtXKey) \/ StartsWith(in[i], ExtXMap)
            THEN C10UriReplaced(in[i], out[i])
            ELSE IF StartsWith(in[i], Hash) THEN out[i] = in[i]
            ELSE C10Proxied(out[i]) /\ out[i] # in[i]

\* a key line with a URI and a padded segment line were rewritten
C10_KeyAndSegment ==
  /\ probe.phase = "once"
  /\ probe.content = Join(<< Str(<< "#", "E", "X", "T", "-", "X", "-", "K", "E", "Y", ":", "M", "E", "T", "H", "O", "D", "=", "A", "E", "S", "-", "1", "2", "8", ",", "U", "R", "I", "=", "\"", "k", ".", "k", "e", "y", "\"" >>), Str(<< " ", "/", "r", "/", "s", ".", "t", "s", " " >>) >>, LF)
  /\ probe.first # probe.content

(***************************************************************************)
(* The claim about the headers of the outbound requests, under Spec.       *)
(***************************************************************************)

\* C11: every outbound request, the target's and each variant's, carries the
\* inbound Accept-Language and Referer when the inbound request has them, and
\* the fixed locale string and the origin of the URL requested only when it
\* has not.
C11_InboundHeadersAtEveryDepth ==
  pc = "fetching" =>
    /\ fetch.acceptLanguage =
         IF reqHeaders.acceptLanguage # << >> THEN reqHeaders.acceptLanguage
         ELSE DefaultAcceptLanguage
    /\ fetch.referer =
         IF reqHeaders.referer # << >> THEN reqHeaders.referer
         ELSE ParseUrl(fetch.url).origin

====
